---- MODULE Spec2Model ----
(***************************************************************************)
(* A model of convert.py, the Cadence layout-to-SVG converter.             *)
(*                                                                         *)
(* The script reads an ASCII stream dump record by record into a heap of   *)
(* Container and Polygon objects, selects a root cell, lets it print       *)
(* itself (the recursive transform resolution) into the global list        *)
(* to_write, sorts that list by layer and writes it to the output file.    *)
(*                                                                         *)
(* Objects are heap indices: a Placement holds a reference to the object   *)
(* that cells[name] named when the record was read, as c = cells[name]     *)
(* does in the script.  Coordinates are the script's values after the      *)
(* division by 10; the records enumerated here carry raw coordinates that  *)
(* are multiples of 10, for which that quotient is an exact integer.       *)
(***************************************************************************)
EXTENDS Integers, Sequences, FiniteSets, TLC

VARIABLES
    pc,               \* position of the script: "ingest", "resolved", "done", or the exception that ended it
    heap,             \* every Container and Polygon object created so far, by identity
    defname,          \* history: the name each object was defined under ("" for a Polygon)
    cells,            \* the dictionary cells: name -> object (0: no such key)
    currentCell,      \* the cell being parsed (0: the initial integer 0)
    object_id,        \* the global id counter
    to_write,         \* the global list of (layer, path) records
    unsorted,         \* history: to_write as it was when dump_to_write_to_file was called
    undefined_layers, \* the global set of layers without a colour
    output_file,      \* what has been written to the output file
    nrec,             \* number of records read from the input file
    root,             \* the object print_me was called on (0: not yet)
    argv3,            \* sys.argv[3], the root's name, or NoArg
    runs,             \* number of calls of print_me on the root
    probe             \* arguments and result of a direct call of rot_mirror_and_offset

vars == <<pc, heap, defname, cells, currentCell, object_id, to_write, unsorted,
          undefined_layers, output_file, nrec, root, argv3, runs, probe>>

----------------------------------------------------------------------------
(* Bounds of the model and the inputs it enumerates.                       *)

\* Longest input stream, in records.
MaxRecords == 6
\* Largest absolute coordinate handed to rot_mirror_and_offset directly.
MaxCoord == 2
\* Longest record list handed to the sort directly.
MaxLen == 4

\* CPython stops a recursion at sys.getrecursionlimit() frames (1000 by
\* default), far above the depth of any acyclic tree; here: just above the
\* deepest acyclic tree that MaxRecords records can build.
RecursionLimit == MaxRecords + 1

Names == {"A", "B"}
NoArg == "-"
Angles == {0, 90, 180, 270}

\* Raw Cell Instance records: the name, the offset, the angle and the mirror.
Instances ==
    { [name |-> "A", x |-> 100, y |-> 0,  angle |-> 90,  mirror |-> FALSE],
      [name |-> "B", x |-> -30, y |-> 20, angle |-> 270, mirror |-> TRUE] }

\* Raw Rectangle records: layer and the two corners.
Rectangles == { [layer |-> 99, x1 |-> 0, y1 |-> 0, x2 |-> 10, y2 |-> 20] }

\* Raw Polygon records: layer and the points.
Polygons == { [layer |-> 6, points |-> << <<10, 0>>, <<0, 20>> >>] }

\* Layers of the record lists handed to the sort directly.
SortLayers == {1, 3, 5}

----------------------------------------------------------------------------
(* The layer colour table.                                                 *)

layer_colors ==
    (3   :> <<"9900e6", "0.1", "9900e6">>) @@
    (6   :> <<"e71f0d", "0.5", "e71f0d">>) @@
    (17  :> <<"01fe00", "0.3", "01fe00">>) @@
    (18  :> <<"01fe00", "0.0", "01fe00">>) @@
    (25  :> <<"01fe00", "0.0", "01fe00">>) @@
    (26  :> <<"01fe00", "0.0", "01fe00">>) @@
    (30  :> <<"ffffff", "1.0", "ffffff">>) @@
    (31  :> <<"0000ff", "0.3", "0000ff">>) @@
    (32  :> <<"ff0000", "0.3", "ff0000">>) @@
    (33  :> <<"01cc66", "0.3", "01cc66">>) @@
    (34  :> <<"ffbff2", "0.3", "ffbff2">>) @@
    (35  :> <<"01fe00", "0.0", "01fe00">>) @@
    (36  :> <<"01fe00", "0.0", "01fe00">>) @@
    (37  :> <<"01fe00", "0.0", "01fe00">>) @@
    (38  :> <<"01fe00", "0.0", "01fe00">>) @@
    (57  :> <<"01fe00", "0.0", "01fe00">>) @@
    (75  :> <<"01fe00", "0.0", "01fe00">>) @@
    (77  :> <<"01fe00", "0.0", "01fe00">>) @@
    (88  :> <<"01fe00", "0.0", "01fe00">>) @@
    (131 :> <<"01fe00", "0.0", "01fe00">>) @@
    (132 :> <<"01fe00", "0.0", "01fe00">>) @@
    (133 :> <<"01fe00", "0.0", "01fe00">>) @@
    (148 :> <<"01fe00", "0.0", "01fe00">>) @@
    (149 :> <<"01fe00", "0.0", "01fe00">>) @@
    (150 :> <<"bf4026", "0.0", "bf4026">>)

----------------------------------------------------------------------------
(* rot_mirror_and_offset                                                   *)

\* Mutant: the mirror is applied before the rotation.
rot_mirror_and_offset_MirrorFirst(obj_x, obj_y, angle, mirror, off_x, off_y) ==
    LET m_y == IF mirror THEN -obj_y ELSE obj_y
        my_x == CASE angle = 90  -> -m_y
                  [] angle = 180 -> -obj_x
                  [] angle = 270 -> m_y
                  [] OTHER       -> obj_x
        my_y == CASE angle = 90  -> obj_x
                  [] angle = 180 -> -m_y
                  [] angle = 270 -> -obj_x
                  [] OTHER       -> m_y
    IN  <<my_x + off_x, my_y + off_y>>

rot_mirror_and_offset(obj_x, obj_y, angle, mirror, off_x, off_y) ==
    LET r_x == CASE angle = 90  -> -obj_y
                 [] angle = 180 -> -obj_x
                 [] angle = 270 -> obj_y
                 [] OTHER       -> obj_x
        r_y == CASE angle = 90  -> obj_x
                 [] angle = 180 -> -obj_y
                 [] angle = 270 -> -obj_x
                 [] OTHER       -> obj_y
        m_y == IF mirror THEN -r_y ELSE r_y
    IN  <<r_x + off_x, m_y + off_y>>

----------------------------------------------------------------------------
(* Polygon and Container                                                   *)

\* The division by 10 of Polygon.__init__ and of the Cell Instance record.
Scale(v) == v \div 10

\* Polygon.__init__: the scaled points, the layer and the id from the counter.
NewPolygon(points, layer) ==
    [kind   |-> "Polygon",
     points |-> [i \in 1..Len(points) |-> <<Scale(points[i][1]), Scale(points[i][2])>>],
     layer  |-> layer,
     id     |-> <<"path", object_id>>]

\* Container.__init__
NewContainer == [kind |-> "Container", children |-> <<>>]

\* Container.add: the tuple appended to the children of heap[o].
add(h, o, obj, x, y, angle, mirror) ==
    [h EXCEPT ![o].children =
        Append(@, [obj |-> obj, x |-> x, y |-> y, angle |-> angle, mirror |-> mirror])]

\* The result of a print_me call: whether it returned (FALSE: RecursionError),
\* the records appended to to_write and the layers added to undefined_layers.
Returned(out, undef) == [ok |-> TRUE, out |-> out, undef |-> undef]
Overflow == [ok |-> FALSE, out |-> <<>>, undef |-> {}]

\* Mutant: a polygon that is already in to_write is not printed again.
Polygon_print_me_Once(p, x, y, angle, mirror) ==
    LET known == p.layer \in DOMAIN layer_colors
        color_info == IF known THEN layer_colors[p.layer]
                               ELSE <<"000000", "0.8", "000000">>
        path == [i \in 1..Len(p.points) |->
                    LET q == rot_mirror_and_offset(p.points[i][1], p.points[i][2],
                                                   angle, mirror, x, y)
                    IN  <<q[1], -q[2]>>]
    IN  IF \E k \in DOMAIN to_write : to_write[k].id = p.id
        THEN Returned(<<>>, {})
        ELSE Returned(<< [layer |-> p.layer, d |-> path, id |-> p.id, style |-> color_info] >>,
                      IF known THEN {} ELSE {p.layer})

\* Mutant: the layer is recorded as undefined whether it has a colour or not.
Polygon_print_me_AlwaysUndefined(p, x, y, angle, mirror) ==
    LET known == p.layer \in DOMAIN layer_colors
        color_info == IF known THEN layer_colors[p.layer]
                               ELSE <<"000000", "0.8", "000000">>
        path == [i \in 1..Len(p.points) |->
                    LET q == rot_mirror_and_offset(p.points[i][1], p.points[i][2],
                                                   angle, mirror, x, y)
                    IN  <<q[1], -q[2]>>]
    IN  Returned(<< [layer |-> p.layer, d |-> path, id |-> p.id, style |-> color_info] >>,
                 {p.layer})

\* Polygon.print_me: the colour of the layer (black, and the layer recorded,
\* when it has none), every point transformed and its y negated, one record.
Polygon_print_me(p, x, y, angle, mirror) ==
    LET known == p.layer \in DOMAIN layer_colors
        color_info == IF known THEN layer_colors[p.layer]
                               ELSE <<"000000", "0.8", "000000">>
        path == [i \in 1..Len(p.points) |->
                    LET q == rot_mirror_and_offset(p.points[i][1], p.points[i][2],
                                                   angle, mirror, x, y)
                    IN  <<q[1], -q[2]>>]
    IN  Returned(<< [layer |-> p.layer, d |-> path, id |-> p.id, style |-> color_info] >>,
                 IF known THEN {} ELSE {p.layer})

RECURSIVE print_me(_, _, _, _, _, _)
RECURSIVE Container_print_me(_, _, _, _, _, _, _)

\* Mutant: a child that occurs earlier in the list is not printed again.
Container_print_me_Memo(o, i, x, y, angle, mirror, depth) ==
    IF i > Len(heap[o].children) THEN Returned(<<>>, {})
    ELSE
      LET c   == heap[o].children[i]
          cxy == rot_mirror_and_offset(c.x, c.y, angle, mirror, x, y)
          r   == IF \E j \in 1..(i-1) : heap[o].children[j].obj = c.obj
                 THEN Returned(<<>>, {})
                 ELSE print_me(c.obj, cxy[1], cxy[2], (c.angle + angle) % 360,
                               c.mirror # mirror, depth - 1)
      IN  IF ~r.ok THEN r
          ELSE LET rest == Container_print_me(o, i + 1, x, y, angle, mirror, depth)
               IN  [ok |-> rest.ok, out |-> r.out \o rest.out,
                    undef |-> r.undef \cup rest.undef]

\* Mutant: the container asks itself, not the child, to print.
Container_print_me_Self(o, i, x, y, angle, mirror, depth) ==
    IF i > Len(heap[o].children) THEN Returned(<<>>, {})
    ELSE
      LET c   == heap[o].children[i]
          cxy == rot_mirror_and_offset(c.x, c.y, angle, mirror, x, y)
          r   == print_me(o, cxy[1], cxy[2], (c.angle + angle) % 360,
                          c.mirror # mirror, depth - 1)
      IN  IF ~r.ok THEN r
          ELSE LET rest == Container_print_me(o, i + 1, x, y, angle, mirror, depth)
               IN  [ok |-> rest.ok, out |-> r.out \o rest.out,
                    undef |-> r.undef \cup rest.undef]

\* Container.print_me, from child i on: the child's origin in the frame the
\* container was given, the child printed at the summed angle and the xor'ed
\* mirror, then the children after it.  An exception in a child ends the loop.
Container_print_me(o, i, x, y, angle, mirror, depth) ==
    IF i > Len(heap[o].children) THEN Returned(<<>>, {})
    ELSE
      LET c   == heap[o].children[i]
          cxy == rot_mirror_and_offset(c.x, c.y, angle, mirror, x, y)
          r   == print_me(c.obj, cxy[1], cxy[2], (c.angle + angle) % 360,
                          c.mirror # mirror, depth - 1)
      IN  IF ~r.ok THEN r
          ELSE LET rest == Container_print_me(o, i + 1, x, y, angle, mirror, depth)
               IN  [ok |-> rest.ok, out |-> r.out \o rest.out,
                    undef |-> r.undef \cup rest.undef]

\* The call obj.print_me(x, y, angle, mirror) with depth frames left.
print_me(o, x, y, angle, mirror, depth) ==
    IF depth = 0 THEN Overflow
    ELSE IF heap[o].kind = "Polygon"
         THEN Polygon_print_me(heap[o], x, y, angle, mirror)
         ELSE Container_print_me(o, 1, x, y, angle, mirror, depth)

----------------------------------------------------------------------------
(* dump_to_write_to_file                                                   *)

\* Mutant: a record goes before the records of its own layer.
insert_Unstable(s, r) ==
    LET k == Cardinality({i \in DOMAIN s : s[i].layer < r.layer})
    IN  SubSeq(s, 1, k) \o <<r>> \o SubSeq(s, k + 1, Len(s))

\* One step of the insertion sort: r goes after every record of s whose
\* layer is not greater.
insert(s, r) ==
    LET k == Cardinality({i \in DOMAIN s : s[i].layer <= r.layer})
    IN  SubSeq(s, 1, k) \o <<r>> \o SubSeq(s, k + 1, Len(s))

RECURSIVE sorted(_)
\* sorted(to_write, key=operator.itemgetter(0)): on lists this short CPython
\* sorts by insertion of each element into the sorted prefix before it.
sorted(s) ==
    IF s = <<>> THEN <<>>
    ELSE insert(sorted(SubSeq(s, 1, Len(s) - 1)), s[Len(s)])

----------------------------------------------------------------------------
(* The script: the state after the header is written, one action for each  *)
(* kind of input record, the resolution of the root at end of input, and   *)
(* the dump.                                                               *)

Init ==
    /\ pc = "ingest"
    /\ heap = <<>>
    /\ defname = <<>>
    /\ cells = [n \in Names |-> 0]
    /\ currentCell = 0
    /\ object_id = 0
    /\ to_write = <<>>
    /\ unsorted = <<>>
    /\ undefined_layers = {}
    /\ output_file = [header |-> TRUE, paths |-> <<>>, footer |-> FALSE]
    /\ nrec = 0
    /\ root = 0
    /\ argv3 = NoArg
    /\ runs = 0
    /\ probe = [args |-> <<>>, res |-> <<>>]

\* Mutant: a name that is already a key keeps its first cell.
CellName_FirstWins(name) ==
    /\ pc = "ingest"
    /\ nrec < MaxRecords
    /\ nrec' = nrec + 1
    /\ heap' = Append(heap, NewContainer)
    /\ defname' = Append(defname, name)
    /\ currentCell' = Len(heap) + 1
    /\ cells' = IF cells[name] = 0 THEN [cells EXCEPT ![name] = Len(heap) + 1] ELSE cells
    /\ UNCHANGED <<pc, object_id, to_write, unsorted, undefined_layers, output_file,
                   root, argv3, runs, probe>>

\* A "Cell Name" line: a new Container becomes the current cell and the
\* value of cells[name].
CellName(name) ==
    /\ pc = "ingest"
    /\ nrec < MaxRecords
    /\ nrec' = nrec + 1
    /\ heap' = Append(heap, NewContainer)
    /\ defname' = Append(defname, name)
    /\ currentCell' = Len(heap) + 1
    /\ cells' = [cells EXCEPT ![name] = Len(heap) + 1]
    /\ UNCHANGED <<pc, object_id, to_write, unsorted, undefined_layers, output_file,
                   root, argv3, runs, probe>>

\* A "Cell Instance" line and the line after it: cells[name] is looked up
\* (KeyError for a missing key) and added to the current cell.
CellInstance(r) ==
    /\ pc = "ingest"
    /\ nrec < MaxRecords
    /\ nrec' = nrec + 1
    /\ IF cells[r.name] = 0
       THEN /\ pc' = "KeyError_instance"
            /\ heap' = heap
       ELSE /\ pc' = pc
            /\ heap' = add(heap, currentCell, cells[r.name],
                           Scale(r.x), Scale(r.y), r.angle, r.mirror)
    /\ UNCHANGED <<defname, cells, currentCell, object_id, to_write, unsorted,
                   undefined_layers, output_file, root, argv3, runs, probe>>

\* p = Polygon(points, layer); currentCell.add(p, 0, 0, 0, 0): the polygon is
\* built, then added (AttributeError while currentCell is still the integer 0).
AddPolygon(points, layer) ==
    /\ pc = "ingest"
    /\ nrec < MaxRecords
    /\ nrec' = nrec + 1
    /\ object_id' = object_id + 1
    /\ IF currentCell = 0
       THEN /\ pc' = "AttributeError_add"
            /\ UNCHANGED <<heap, defname>>
       ELSE /\ pc' = pc
            /\ heap' = add(Append(heap, NewPolygon(points, layer)), currentCell,
                           Len(heap) + 1, 0, 0, 0, FALSE)
            /\ defname' = Append(defname, "")
    /\ UNCHANGED <<cells, currentCell, to_write, unsorted, undefined_layers,
                   output_file, root, argv3, runs, probe>>

\* A "Rectangle" line: the two corners expanded to five points.
Rectangle(r) ==
    AddPolygon(<< <<r.x1, r.y1>>, <<r.x1, r.y2>>, <<r.x2, r.y2>>,
                  <<r.x2, r.y1>>, <<r.x1, r.y1>> >>, r.layer)

\* A "Polygon" line and the lines of points after it.
Polygon(r) == AddPolygon(r.points, r.layer)

\* The root the script selects at end of input: cells[sys.argv[3]] or,
\* without that argument, the current cell (0: the selection raises).
SelectRoot(arg) == IF arg # NoArg THEN cells[arg] ELSE currentCell

\* The exception a failed selection raises: KeyError for a missing key,
\* AttributeError for print_me on the integer 0.
SelectError(arg) == IF arg # NoArg THEN "KeyError_root" ELSE "AttributeError_root"

\* Mutant: a missing root name falls back to the current cell, which is
\* printed and dumped before the lookup raises.
EndOfInput_DumpThenRaise(arg) ==
    /\ pc = "ingest"
    /\ argv3' = arg
    /\ IF currentCell = 0
       THEN /\ pc' = SelectError(arg)
            /\ UNCHANGED <<to_write, unsorted, undefined_layers, output_file, root, runs>>
       ELSE LET o == IF SelectRoot(arg) = 0 THEN currentCell ELSE SelectRoot(arg)
                r == print_me(o, 0, 0, 0, FALSE, RecursionLimit)
            IN  /\ root' = o
                /\ runs' = 1
                /\ undefined_layers' = undefined_layers \cup r.undef
                /\ IF r.ok
                   THEN /\ pc' = IF SelectRoot(arg) = 0 THEN SelectError(arg) ELSE "done"
                        /\ unsorted' = to_write \o r.out
                        /\ to_write' = sorted(to_write \o r.out)
                        /\ output_file' = [output_file EXCEPT
                                              !.paths = @ \o sorted(to_write \o r.out),
                                              !.footer = TRUE]
                   ELSE /\ pc' = "RecursionError"
                        /\ to_write' = to_write \o r.out
                        /\ UNCHANGED <<unsorted, output_file>>
    /\ UNCHANGED <<heap, defname, cells, currentCell, object_id, nrec, probe>>

\* End of input, to the end of the script: the root is selected and prints
\* itself at the identity transform; dump_to_write_to_file replaces to_write
\* by its sorted copy and writes every record; the footer is written.  An
\* exception ends the script where it is raised.
EndOfInput(arg) ==
    /\ pc = "ingest"
    /\ argv3' = arg
    /\ IF SelectRoot(arg) = 0
       THEN /\ pc' = SelectError(arg)
            /\ UNCHANGED <<to_write, unsorted, undefined_layers, output_file, root, runs>>
       ELSE LET r == print_me(SelectRoot(arg), 0, 0, 0, FALSE, RecursionLimit)
            IN  /\ root' = SelectRoot(arg)
                /\ runs' = 1
                /\ undefined_layers' = undefined_layers \cup r.undef
                /\ IF r.ok
                   THEN /\ pc' = "done"
                        /\ unsorted' = to_write \o r.out
                        /\ to_write' = sorted(to_write \o r.out)
                        /\ output_file' = [output_file EXCEPT
                                              !.paths = @ \o sorted(to_write \o r.out),
                                              !.footer = TRUE]
                   ELSE /\ pc' = "RecursionError"
                        /\ to_write' = to_write \o r.out
                        /\ UNCHANGED <<unsorted, output_file>>
    /\ UNCHANGED <<heap, defname, cells, currentCell, object_id, nrec, probe>>

Ingest ==
    \/ \E name \in Names : CellName(name)
    \/ \E r \in Instances : CellInstance(r)
    \/ \E r \in Rectangles : Rectangle(r)
    \/ \E r \in Polygons : Polygon(r)

Next ==
    \/ Ingest
    \/ \E arg \in Names \cup {NoArg} : EndOfInput(arg)

Spec == Init /\ [][Next]_vars

----------------------------------------------------------------------------
(* The root printed a second time on the tree the first call read.         *)

\* The selection of the root and its print_me call alone (lines 380 to 385).
ResolveRoot(arg) ==
    /\ pc = "ingest"
    /\ argv3' = arg
    /\ IF SelectRoot(arg) = 0
       THEN /\ pc' = SelectError(arg)
            /\ UNCHANGED <<to_write, undefined_layers, root, runs>>
       ELSE LET r == print_me(SelectRoot(arg), 0, 0, 0, FALSE, RecursionLimit)
            IN  /\ root' = SelectRoot(arg)
                /\ runs' = 1
                /\ to_write' = to_write \o r.out
                /\ undefined_layers' = undefined_layers \cup r.undef
                /\ pc' = IF r.ok THEN "resolved" ELSE "RecursionError"
    /\ UNCHANGED <<heap, defname, cells, currentCell, object_id, unsorted,
                   output_file, nrec, probe>>

\* A second root.print_me(0, 0, 0, 0) after the first returned.
ResolveAgain ==
    /\ pc = "resolved"
    /\ runs = 1
    /\ LET r == print_me(root, 0, 0, 0, FALSE, RecursionLimit)
       IN  /\ runs' = 2
           /\ to_write' = to_write \o r.out
           /\ undefined_layers' = undefined_layers \cup r.undef
           /\ pc' = IF r.ok THEN "resolved" ELSE "RecursionError"
    /\ UNCHANGED <<heap, defname, cells, currentCell, object_id, unsorted,
                   output_file, nrec, root, argv3, probe>>

NextTwice ==
    \/ Ingest
    \/ \E arg \in Names \cup {NoArg} : ResolveRoot(arg)
    \/ ResolveAgain

SpecTwice == Init /\ [][NextTwice]_vars

----------------------------------------------------------------------------
(* rot_mirror_and_offset called directly on bounded arguments.             *)

Coords == (-MaxCoord)..MaxCoord

InitCompose ==
    /\ pc = "call"
    /\ heap = <<>>
    /\ defname = <<>>
    /\ cells = [n \in Names |-> 0]
    /\ currentCell = 0
    /\ object_id = 0
    /\ to_write = <<>>
    /\ unsorted = <<>>
    /\ undefined_layers = {}
    /\ output_file = [header |-> TRUE, paths |-> <<>>, footer |-> FALSE]
    /\ nrec = 0
    /\ root = 0
    /\ argv3 = NoArg
    /\ runs = 0
    /\ \E x \in Coords, y \in Coords, angle \in Angles, mirror \in BOOLEAN,
          ox \in Coords, oy \in Coords :
            probe = [args |-> <<x, y, angle, mirror, ox, oy>>, res |-> <<>>]

Compose ==
    /\ pc = "call"
    /\ pc' = "returned"
    /\ probe' = [probe EXCEPT !.res =
                    rot_mirror_and_offset(probe.args[1], probe.args[2], probe.args[3],
                                          probe.args[4], probe.args[5], probe.args[6])]
    /\ UNCHANGED <<heap, defname, cells, currentCell, object_id, to_write, unsorted,
                   undefined_layers, output_file, nrec, root, argv3, runs>>

SpecCompose == InitCompose /\ [][Compose]_vars

----------------------------------------------------------------------------
(* dump_to_write_to_file called on bounded record lists.                   *)

\* The record a polygon of the layer emits, its id the emission position.
SortRecord(layer, i) ==
    [layer |-> layer, d |-> <<>>, id |-> <<"path", i>>,
     style |-> IF layer \in DOMAIN layer_colors THEN layer_colors[layer]
               ELSE <<"000000", "0.8", "000000">>]

InitSort ==
    /\ pc = "resolved"
    /\ heap = <<>>
    /\ defname = <<>>
    /\ cells = [n \in Names |-> 0]
    /\ currentCell = 0
    /\ object_id = 0
    /\ \E n \in 0..MaxLen : \E f \in [1..n -> SortLayers] :
          to_write = [i \in 1..n |-> SortRecord(f[i], i)]
    /\ unsorted = <<>>
    /\ undefined_layers = {}
    /\ output_file = [header |-> TRUE, paths |-> <<>>, footer |-> FALSE]
    /\ nrec = 0
    /\ root = 0
    /\ argv3 = NoArg
    /\ runs = 0
    /\ probe = [args |-> <<>>, res |-> <<>>]

\* dump_to_write_to_file on the list as it stands.
Dump ==
    /\ pc = "resolved"
    /\ pc' = "done"
    /\ unsorted' = to_write
    /\ to_write' = sorted(to_write)
    /\ output_file' = [output_file EXCEPT !.paths = @ \o sorted(to_write),
                                          !.footer = TRUE]
    /\ UNCHANGED <<heap, defname, cells, currentCell, object_id, undefined_layers,
                   nrec, root, argv3, runs, probe>>

SpecSort == InitSort /\ [][Dump]_vars

----------------------------------------------------------------------------
(* Notions the properties below are stated with.                           *)

Containers == {o \in DOMAIN heap : heap[o].kind = "Container"}
PolygonObjects == {o \in DOMAIN heap : heap[o].kind = "Polygon"}

\* The objects a container places.
Placed(o) == {heap[o].children[i].obj : i \in DOMAIN heap[o].children}

RECURSIVE ReachFrom(_, _)
ReachFrom(S, n) ==
    IF n = 0 THEN S
    ELSE ReachFrom(S \cup UNION {Placed(o) : o \in S \cap Containers}, n - 1)

\* The objects print_me on o can come to: o and everything placed below it.
Reach(o) == ReachFrom({o}, Len(heap))

\* A cell that holds a Placement of itself.
SelfPlaced(o) == o \in Containers /\ o \in Placed(o)

\* The last object defined under a name (0: none).
LastDef(name) ==
    LET D == {o \in Containers : defname[o] = name}
    IN  IF D = {} THEN 0 ELSE CHOOSE o \in D : \A q \in D : q <= o

\* The last object defined under a name among the first k objects (0: none).
LastDefUpTo(name, k) ==
    LET D == {o \in Containers : defname[o] = name /\ o <= k}
    IN  IF D = {} THEN 0 ELSE CHOOSE o \in D : \A q \in D : q <= o

\* The three steps of compose, each alone.
Rotate(p, angle) ==
    CASE angle = 0   -> <<p[1], p[2]>>
      [] angle = 90  -> <<-p[2], p[1]>>
      [] angle = 180 -> <<-p[1], -p[2]>>
      [] angle = 270 -> <<p[2], -p[1]>>
MirrorY(p, mirror) == IF mirror THEN <<p[1], -p[2]>> ELSE p
Translate(p, off) == <<p[1] + off[1], p[2] + off[2]>>
compose(p, angle, mirror, off) == Translate(MirrorY(Rotate(p, angle), mirror), off)

RECURSIVE LocalPaths(_), LocalPathsFrom(_, _)
\* The point lists of the primitives below o, in o's own frame: each level
\* passes what its child yields through compose with the child's placement.
LocalPaths(o) ==
    IF heap[o].kind = "Polygon" THEN << heap[o].points >>
    ELSE LocalPathsFrom(o, 1)
LocalPathsFrom(o, i) ==
    IF i > Len(heap[o].children) THEN <<>>
    ELSE LET c == heap[o].children[i]
             below == LocalPaths(c.obj)
         IN  [k \in DOMAIN below |->
                [j \in DOMAIN below[k] |->
                    compose(below[k][j], c.angle, c.mirror, <<c.x, c.y>>)]]
             \o LocalPathsFrom(o, i + 1)

\* A point list with every y negated.
FlipY(path) == [j \in DOMAIN path |-> <<path[j][1], -path[j][2]>>]

RECURSIVE Leaves(_), LeavesFrom(_, _)
\* The ids of the primitives below o, depth-first in stored order, one for
\* each chain of placements.
Leaves(o) ==
    IF heap[o].kind = "Polygon" THEN << heap[o].id >>
    ELSE LeavesFrom(o, 1)
LeavesFrom(o, i) ==
    IF i > Len(heap[o].children) THEN <<>>
    ELSE Leaves(heap[o].children[i].obj) \o LeavesFrom(o, i + 1)

RECURSIVE Chains(_, _), ChainsFrom(_, _, _)
\* The number of chains of placements from o down to the object t.
Chains(o, t) ==
    IF o = t THEN 1
    ELSE IF heap[o].kind = "Polygon" THEN 0
    ELSE ChainsFrom(o, 1, t)
ChainsFrom(o, i, t) ==
    IF i > Len(heap[o].children) THEN 0
    ELSE Chains(heap[o].children[i].obj, t) + ChainsFrom(o, i + 1, t)

\* How many records of a list carry the id.
Count(s, id) == Cardinality({i \in DOMAIN s : s[i].id = id})

LayersOf(s) == [i \in DOMAIN s |-> s[i].layer]
IdsOf(s) == [i \in DOMAIN s |-> s[i].id]

----------------------------------------------------------------------------
(* The properties.                                                         *)

\* C1: every point a completed resolution emits equals the point obtained
\* by applying compose per level, from the innermost placement outwards,
\* with y negated once at emission.
C1_PerLevelCompose ==
    pc = "done" =>
        [i \in DOMAIN unsorted |-> unsorted[i].d]
            = [i \in DOMAIN LocalPaths(root) |-> FlipY(LocalPaths(root)[i])]

\* C2: no two records a completed resolution emitted carry the same id.
C2_UniqueIds ==
    pc = "done" =>
        \A i, j \in DOMAIN to_write : i # j => to_write[i].id # to_write[j].id

\* C3: rot_mirror_and_offset returns the point rotated counter-clockwise by
\* the exact right-angle forms, then mirrored in y if the flag is set, then
\* moved by the offset.
C3_RotateMirrorOffset ==
    pc = "returned" =>
        probe.res = compose(<<probe.args[1], probe.args[2]>>, probe.args[3],
                            probe.args[4], <<probe.args[5], probe.args[6]>>)

\* A call where the order of mirror and rotation shows: (1,2) at 90 degrees,
\* mirrored, offset (1,-1), gives (-1,-2).
C3_Witness ==
    /\ pc = "returned"
    /\ probe.args = <<1, 2, 90, TRUE, 1, -1>>
    /\ probe.res = <<-1, -2>>

\* C4: after the dump to_write is the list it was, ordered by layer
\* ascending, the records of each layer in their emission order, and that
\* is what the file holds.
C4_StableSortByLayer ==
    pc = "done" =>
        /\ Len(to_write) = Len(unsorted)
        /\ \A i \in 1..(Len(to_write) - 1) : to_write[i].layer <= to_write[i + 1].layer
        /\ \A L \in {unsorted[i].layer : i \in DOMAIN unsorted} :
              SelectSeq(to_write, LAMBDA r : r.layer = L)
                  = SelectSeq(unsorted, LAMBDA r : r.layer = L)
        /\ output_file.paths = to_write

\* Layers [5,1,5,3] dumped as [1,3,5,5], the first-emitted 5 before the second.
C4_Witness ==
    /\ pc = "done"
    /\ LayersOf(unsorted) = <<5, 1, 5, 3>>
    /\ LayersOf(to_write) = <<1, 3, 5, 5>>
    /\ IdsOf(to_write) = << <<"path", 2>>, <<"path", 4>>, <<"path", 1>>, <<"path", 3>> >>

\* C5: when a Placement or the selected root names a cell that is not
\* defined, the script ends in the lookup failure with no record emitted
\* and none written; no Placement is ever stored, and no root printed,
\* without the cell it names.
C5_NoRecordOnUnknownCell ==
    /\ pc \in {"KeyError_instance", "KeyError_root"} =>
          /\ to_write = <<>>
          /\ output_file.paths = <<>>
          /\ ~output_file.footer
    /\ \A o \in Containers : Placed(o) \subseteq DOMAIN heap
    /\ runs = 1 => root \in Containers

\* A Placement of an undefined name read after a primitive was.
C5_Witness ==
    /\ pc = "KeyError_instance"
    /\ PolygonObjects # {}

\* C6: a primitive on a layer without a colour is emitted black at opacity
\* 0.8, undefined_layers holds exactly the colourless layers that were
\* emitted, and every primitive below the root of a completed resolution,
\* colourless or not, has its record.
C6_UnknownLayerFallback ==
    /\ \A i \in DOMAIN to_write :
          to_write[i].layer \notin DOMAIN layer_colors
              => to_write[i].style = <<"000000", "0.8", "000000">>
    /\ undefined_layers = {to_write[i].layer : i \in DOMAIN to_write} \ DOMAIN layer_colors
    /\ pc = "done" =>
          \A o \in Reach(root) \cap PolygonObjects : Count(to_write, heap[o].id) >= 1

\* Two records on the colourless layer 99 and one on layer 6, and 99 alone
\* in undefined_layers.
C6_Witness ==
    /\ pc = "done"
    /\ Cardinality({i \in DOMAIN to_write : to_write[i].layer = 99}) >= 2
    /\ \E i \in DOMAIN to_write : to_write[i].layer = 6
    /\ undefined_layers = {99}

C9_DepthFirstOncePerChain ==
    pc = "done" =>
        /\ IdsOf(unsorted) = Leaves(root)
        /\ \A o \in PolygonObjects : Count(unsorted, heap[o].id) = Chains(root, o)

\* A cell with two primitives placed twice: four records, two of each id.
C9_Witness ==
    /\ pc = "done"
    /\ \E o \in Containers :
          /\ Cardinality({i \in DOMAIN heap[root].children :
                            heap[root].children[i].obj = o}) = 2
          /\ Cardinality(Placed(o) \cap PolygonObjects) = 2
    /\ Len(unsorted) = 4
    /\ \A o \in PolygonObjects : Count(unsorted, heap[o].id) = 2

\* C10 as stated: the root selected by name, and every Placement below the
\* root, is the last cell defined under its name.
C10_LastDefinitionWins ==
    pc = "done" =>
        /\ argv3 # NoArg => root = LastDef(argv3)
        /\ \A o \in Reach(root) \cap Containers : \A t \in Placed(o) \cap Containers :
              t = LastDef(defname[t])

\* C10 as amended: cells[name] and the root selected by name are the last
\* cell defined under the name; a Placement is the last cell defined under
\* its name before the Placement was read.
C10_LastDefinitionBeforeUse ==
    /\ \A name \in Names : cells[name] = LastDef(name)
    /\ runs = 1 /\ argv3 # NoArg => root = LastDef(argv3)
    /\ \A o \in Containers : \A t \in Placed(o) \cap Containers :
          t = LastDefUpTo(defname[t], o)

\* A root selected by name with a Placement below it that was read before
\* the name it places was defined again.
C10_Witness ==
    /\ pc = "done"
    /\ argv3 # NoArg
    /\ \E o \in Reach(root) \cap Containers : \E t \in Placed(o) \cap Containers :
          t # LastDef(defname[t])

====
